---------------------------- MODULE Spec2Model ----------------------------
(***************************************************************************)
(* Route discovery and path resolution engine of nextjs-radar.             *)
(*                                                                         *)
(* Strings are sequences of one-character strings, so that the regular     *)
(* expressions, slices, joins and splits of the source are computed        *)
(* character by character.  The empty sequence stands for null/undefined   *)
(* where the source has an optional string.                                *)
(***************************************************************************)
EXTENDS Integers, Sequences, FiniteSets, TLC

VARIABLES
    pc,           \* position of the run: which call has been made
    filename,     \* argument of getFileType
    fileTypeOut,  \* result of getFileType
    segment,      \* argument of getRoutingPattern
    patternOut,   \* result of getRoutingPattern
    segs,         \* argument of buildRoutePath
    pathOut,      \* result of buildRoutePath
    files,        \* AppRouterFile[] collected by scanAppRouterFiles
    nodes,        \* the RouteItem objects created by buildRouteHierarchy
    rootRoutes,   \* the RouteItem[] returned by buildRouteHierarchy
    url,          \* argument of matchUrlToRoute
    matched,      \* result of matchUrlToRoute: index into nodes, 0 = null
    raised,       \* TRUE when matchUrlToRoute threw instead of returning
    tree,         \* the files below the app directory, in readdir order
    unreadable,   \* the directories whose readdir fails
    scanFailed,   \* TRUE when scanAppRouterFiles threw instead of returning
    runs,         \* number of scans made over the tree
    prevNodes,    \* nodes of the forest of the previous scan and build
    prevRoots,    \* rootRoutes of the forest of the previous scan and build
    idArgs,       \* two arguments of generateRouteId: <<segments, fileType>>
    idOut,        \* the ids generateRouteId returned for them
    configFile,   \* .vscode/nextjs-radar.json of the workspace
    settings,     \* the nextjsRadar section of the VS Code settings
    config,       \* this.config of the provider
    searchQuery,  \* this.searchQuery
    allFiles,     \* this.allFiles
    routes,       \* this.routes
    filteredRoutes, \* this.filteredRoutes
    refreshing,   \* the refresh calls between their start and their end
    loading,      \* number of loadConfiguration calls that have not returned
    watching,     \* TRUE once initialize has set up watcher and listener
    fired,        \* number of tree-changed notifications fired
    owed,         \* TRUE from a configuration change to the end of a rebuild
                  \* that scanned after it
    events,       \* number of events the environment has delivered
    urlSegs,      \* first argument of matchSegments and isRouteMatch
    routeSegs,    \* the route segments matchSegments and isRouteMatch see
    segmentsMatch, \* result of matchSegments
    routeMatch    \* result of isRouteMatch

\* the variables of the scanner runs
scanVars == <<tree, unreadable, scanFailed, runs, prevNodes, prevRoots>>

\* the variables of the generateRouteId runs
idVars == <<idArgs, idOut>>

\* the variables of the matchSegments runs
segmentVars == <<urlSegs, routeSegs, segmentsMatch, routeMatch>>

\* the variables of the provider runs, the directory tree apart
providerVars == <<configFile, settings, config, searchQuery, allFiles, routes,
                  filteredRoutes, refreshing, loading, watching, fired, owed,
                  events>>

\* the variables the classification and matching runs leave alone
otherVars == <<scanVars, idVars, segmentVars, providerVars>>

vars == <<pc, filename, fileTypeOut, segment, patternOut, segs, pathOut,
          files, nodes, rootRoutes, url, matched, raised, otherVars>>

-----------------------------------------------------------------------------
(* Bounds of the model *)

MaxNameLen == 2     \* characters of a generated segment name
MaxSegs == 2        \* segments of a generated buildRoutePath argument
MaxFiles == 3       \* files emitted by one scan
MaxTreeFiles == 3   \* files of a scanned directory tree
MaxRuns == 2        \* scans made over one directory tree
MaxIdSegs == 1      \* segments of a generated generateRouteId argument
MaxEvents == 3      \* events the environment delivers to the provider
MaxInflight == 2    \* refresh calls in progress at the same time

-----------------------------------------------------------------------------
(* JavaScript string and array primitives *)

\* s.startsWith(p)
StartsWith(s, p) == Len(s) >= Len(p) /\ SubSeq(s, 1, Len(p)) = p

\* s.endsWith(p)
EndsWith(s, p) == Len(s) >= Len(p) /\ SubSeq(s, Len(s) - Len(p) + 1, Len(s)) = p

\* s.slice(from) with from >= 0
SliceFrom(s, from) == SubSeq(s, from + 1, Len(s))

\* s.slice(from, -back) with from >= 0, back > 0
SliceTrim(s, from, back) == SubSeq(s, from + 1, Len(s) - back)

\* s.includes(sub)
Includes(s, sub) ==
    \E i \in 1..(Len(s) - Len(sub) + 1) : SubSeq(s, i, i + Len(sub) - 1) = sub

\* position of the first occurrence of character c in s, 0 when absent
IndexOfChar(s, c) ==
    IF \E i \in 1..Len(s) : s[i] = c
    THEN CHOOSE i \in 1..Len(s) : s[i] = c /\ \A j \in 1..(i - 1) : s[j] # c
    ELSE 0

RECURSIVE Join(_, _)
\* parts.join(sep)
Join(parts, sep) ==
    IF Len(parts) = 0 THEN <<>>
    ELSE IF Len(parts) = 1 THEN parts[1]
    ELSE parts[1] \o sep \o Join(Tail(parts), sep)

RECURSIVE Split(_, _)
\* s.split(c) for a one-character separator; ''.split(c) is ['']
Split(s, c) ==
    LET i == IndexOfChar(s, c)
    IN  IF i = 0 THEN <<s>>
        ELSE <<SubSeq(s, 1, i - 1)>> \o Split(SubSeq(s, i + 1, Len(s)), c)

RECURSIVE CollapseSlashes(_)
\* s.replace(/\/+/g, '/')
CollapseSlashes(s) ==
    IF Len(s) <= 1 THEN s
    ELSE IF s[1] = "/" /\ s[2] = "/" THEN CollapseSlashes(Tail(s))
    ELSE <<s[1]>> \o CollapseSlashes(Tail(s))

\* every character of s lies outside the set bad, and s is not empty:
\* the regular expression [^bad]+ anchored on both sides
NonEmptyWithout(s, bad) == Len(s) > 0 /\ \A i \in 1..Len(s) : s[i] \notin bad

-----------------------------------------------------------------------------
(* constants/types.ts *)

Page == <<"p","a","g","e">>
Layout == <<"l","a","y","o","u","t">>
Loading == <<"l","o","a","d","i","n","g">>
Error == <<"e","r","r","o","r">>
NotFound == <<"n","o","t","-","f","o","u","n","d">>
Route == <<"r","o","u","t","e">>
Template == <<"t","e","m","p","l","a","t","e">>
Default == <<"d","e","f","a","u","l","t">>
GlobalError == <<"g","l","o","b","a","l","-","e","r","r","o","r">>

\* the members of enum RouteFileType, in declaration order
RouteFileType ==
    <<Page, Layout, Loading, Error, NotFound, Route, Template, Default, GlobalError>>

Static == <<"s","t","a","t","i","c">>
Dynamic == <<"d","y","n","a","m","i","c">>
CatchAll == <<"c","a","t","c","h","-","a","l","l">>
OptionalCatchAll == <<"o","p","t","i","o","n","a","l","-","c","a","t","c","h","-","a","l","l">>
Parallel == <<"p","a","r","a","l","l","e","l">>
Intercepting == <<"i","n","t","e","r","c","e","p","t","i","n","g">>
RouteGroup == <<"r","o","u","t","e","-","g","r","o","u","p">>

\* null / undefined of an optional string
Null == <<>>

-----------------------------------------------------------------------------
(* constants/patterns.ts: FILE_PATTERNS and getFileType *)

Ts == <<"t","s">>
Tsx == <<"t","s","x">>
Js == <<"j","s">>
Jsx == <<"j","s","x">>

\* the extension alternatives of a pattern: (ts|js) for route, (tsx?|jsx?)
\* for every other role
FilePatternExts(type) == IF type = Route THEN {Ts, Js} ELSE {Ts, Tsx, Js, Jsx}

\* the pattern without its ^ anchor: a plausible slip in the table
FilePatternUnanchored(type, name) ==
    \E e \in FilePatternExts(type) : EndsWith(name, type \o <<".">> \o e)

\* FILE_PATTERNS[type].test(name): /^<type>\.(exts)$/
FILE_PATTERNS(type, name) ==
    \E e \in FilePatternExts(type) : name = type \o <<".">> \o e

RECURSIVE FirstFileType(_, _)
\* the loop of getFileType over Object.entries(FILE_PATTERNS) from entry i on
FirstFileType(name, i) ==
    IF i > Len(RouteFileType) THEN Null
    ELSE IF FILE_PATTERNS(RouteFileType[i], name) THEN RouteFileType[i]
    ELSE FirstFileType(name, i + 1)

getFileType(name) == FirstFileType(name, 1)

-----------------------------------------------------------------------------
(* constants/patterns.ts: SEGMENT_PATTERNS, ROUTE_PATTERNS, getRoutingPattern *)

\* /^\[([^.\]]+)\]$/
DYNAMIC_SEGMENT(s) ==
    /\ StartsWith(s, <<"[">>)
    /\ EndsWith(s, <<"]">>)
    /\ NonEmptyWithout(SliceTrim(s, 1, 1), {".", "]"})

\* the catch-all pattern with two dots instead of three
CatchAllTwoDots(s) ==
    /\ StartsWith(s, <<"[", ".", ".">>)
    /\ EndsWith(s, <<"]">>)
    /\ NonEmptyWithout(SliceTrim(s, 3, 1), {".", "]"})

\* /^\[\.\.\.([^.\]]+)\]$/
CATCH_ALL_SEGMENT(s) ==
    /\ StartsWith(s, <<"[", ".", ".", ".">>)
    /\ EndsWith(s, <<"]">>)
    /\ NonEmptyWithout(SliceTrim(s, 4, 1), {".", "]"})

\* /^\[\[\.\.\.([^.\]]+)\]\]$/
OPTIONAL_CATCH_ALL_SEGMENT(s) ==
    /\ StartsWith(s, <<"[", "[", ".", ".", ".">>)
    /\ EndsWith(s, <<"]", "]">>)
    /\ NonEmptyWithout(SliceTrim(s, 5, 2), {".", "]"})

\* /^\(([^)]+)\)$/
ROUTE_GROUP(s) ==
    /\ StartsWith(s, <<"(">>)
    /\ EndsWith(s, <<")">>)
    /\ NonEmptyWithout(SliceTrim(s, 1, 1), {")"})

\* /^@([^/]+)$/
PARALLEL_ROUTE(s) ==
    /\ StartsWith(s, <<"@">>)
    /\ NonEmptyWithout(SliceFrom(s, 1), {"/"})

\* /^(\(.+\))(.*)$/ : an opening parenthesis, at least one character, and a
\* closing parenthesis somewhere after it
INTERCEPTING_ROUTE(s) ==
    /\ StartsWith(s, <<"(">>)
    /\ \E i \in 3..Len(s) : s[i] = ")"

\* SEGMENT_PATTERNS[static]: /^[^[\]()@]+$/
STATIC_SEGMENT(s) == NonEmptyWithout(s, {"[", "]", "(", ")", "@"})

getRoutingPattern(s) ==
    IF OPTIONAL_CATCH_ALL_SEGMENT(s) THEN OptionalCatchAll
    ELSE IF CATCH_ALL_SEGMENT(s) THEN CatchAll
    ELSE IF DYNAMIC_SEGMENT(s) THEN Dynamic
    ELSE IF ROUTE_GROUP(s) THEN RouteGroup
    ELSE IF PARALLEL_ROUTE(s) THEN Parallel
    ELSE IF INTERCEPTING_ROUTE(s) THEN Intercepting
    ELSE Static

isRouteGroup(s) == ROUTE_GROUP(s)

\* isDynamicSegment that knows no dynamic segment
NoDynamicSegment(s) == FALSE

isDynamicSegment(s) == DYNAMIC_SEGMENT(s)

isCatchAllSegment(s) == CATCH_ALL_SEGMENT(s)

isOptionalCatchAllSegment(s) == OPTIONAL_CATCH_ALL_SEGMENT(s)

-----------------------------------------------------------------------------
(* utils: buildRoutePath *)

NotRouteGroup(s) == ~isRouteGroup(s)

\* the .map callback of buildRoutePath
DisplaySegment(s) ==
    IF StartsWith(s, <<"[">>) /\ EndsWith(s, <<"]">>)
    THEN LET inner == SliceTrim(s, 1, 1)
         IN  IF StartsWith(inner, <<".", ".", ".">>)
             THEN <<"*">> \o SliceFrom(inner, 3)
             ELSE <<":">> \o inner
    ELSE IF StartsWith(s, <<"@">>) THEN SliceFrom(s, 1)
    ELSE s

RECURSIVE DisplaySegments(_)
\* segments.map(segment => ...) of buildRoutePath
DisplaySegments(segments) ==
    IF Len(segments) = 0 THEN <<>>
    ELSE <<DisplaySegment(Head(segments))>> \o DisplaySegments(Tail(segments))

\* buildRoutePath without the route-group filter
BuildRoutePathKeepGroups(segments) ==
    IF Len(segments) = 0 THEN <<"/">>
    ELSE <<"/">> \o Join(DisplaySegments(segments), <<"/">>)

buildRoutePath(segments) ==
    IF Len(segments) = 0 THEN <<"/">>
    ELSE <<"/">> \o Join(DisplaySegments(SelectSeq(segments, NotRouteGroup)),
                         <<"/">>)

-----------------------------------------------------------------------------
(* Inputs of the classifier and path-builder runs *)

\* all sequences over S of length 0..n
RECURSIVE SeqsUpTo(_, _)
SeqsUpTo(S, n) ==
    IF n = 0 THEN {<<>>}
    ELSE LET shorter == SeqsUpTo(S, n - 1)
         IN  shorter \cup {Append(t, x) : t \in shorter, x \in S}

Random == <<"r","a","n","d","o","m">>
Css == <<"c","s","s">>

FileStems == {RouteFileType[i] : i \in 1..Len(RouteFileType)} \cup {Random}
FilePrefixes == {<<>>, <<"x">>, <<"g","l","o","b","a","l","-">>}
FileSeparators == {<<".">>, <<>>, <<"-">>}
FileExts == {Ts, Tsx, Js, Jsx, Css, <<"t">>, <<"j","s","x","x">>, <<>>}
FilePostfixes == {<<>>, <<"x">>}

\* file names: the nine reserved names with their extensions, and near misses
FileNames ==
    {p \o st \o sep \o e \o q :
        p \in FilePrefixes, st \in FileStems, sep \in FileSeparators,
        e \in FileExts, q \in FilePostfixes}

\* characters a directory name is made of in the generated segments
NameChars == {"a", ".", "]", ")", "@"}

\* characters of a name as the segment grammar understands it: no dot and no
\* closing bracket (the capture group [^.\]]+ of the patterns)
PlainChars == NameChars \ {".", "]"}

Names == SeqsUpTo(NameChars, MaxNameLen)

PlainNames == SeqsUpTo(PlainChars, MaxNameLen) \ {<<>>}

SegmentPrefixes ==
    {<<>>, <<"[">>, <<"[", "[">>, <<"[", ".", ".">>, <<"[", ".", ".", ".">>,
     <<"[", "[", ".", ".", ".">>, <<"(">>, <<"(", ".", ")">>, <<"@">>}

SegmentPostfixes == {<<>>, <<"]">>, <<"]", "]">>, <<")">>}

\* directory names: every bracket, parenthesis and sigil form, well formed or not
Segments ==
    {p \o n \o q : p \in SegmentPrefixes, n \in Names, q \in SegmentPostfixes}

\* the directory names a buildRoutePath argument is made of
PathSegments ==
    {<<"b","l","o","g">>, <<"[","s","l","u","g","]">>,
     <<"d","o","c","s">>, <<"[",".",".",".","s","l","u","g","]">>,
     <<"[","[",".",".",".","s","l","u","g","]","]">>,
     <<"(","m","a","r","k","e","t","i","n","g",")">>,
     <<"p","r","o","d","u","c","t","s">>, <<"@","t","e","a","m">>,
     <<"(",".",")","a">>, <<"[","a",".","b","]">>, <<"[",".",".",".","]">>,
     <<"[","[",".",".",".","a","]","]">>, <<"[",".",".",".","a","]">>}

SegmentLists == SeqsUpTo(PathSegments, MaxSegs)

-----------------------------------------------------------------------------
(* utils: scanDirectory, the files one scan can emit *)

S_blog == <<"b","l","o","g">>
S_slug == <<"[","s","l","u","g","]">>
S_myPost == <<"m","y","-","p","o","s","t">>
S_docs == <<"d","o","c","s">>
S_catchAll == <<"[",".",".",".","s","l","u","g","]">>
S_optional == <<"[","[",".",".",".","s","l","u","g","]","]">>
S_marketing == <<"(","m","a","r","k","e","t","i","n","g",")">>
S_dashboard == <<"d","a","s","h","b","o","a","r","d">>
S_team == <<"@","t","e","a","m">>
S_x == <<"x">>
S_a == <<"a">>
S_b == <<"b">>
S_c == <<"c">>

PageTsx == Page \o <<".">> \o Tsx
LayoutTsx == Layout \o <<".">> \o Tsx
RouteTs == Route \o <<".">> \o Ts
ReadmeMd == <<"R","E","A","D","M","E",".","m","d">>

\* the directory entries of the scanned tree: <<directory segments, file name>>
DirEntries ==
    {<< <<>>, PageTsx >>,
     << <<>>, LayoutTsx >>,
     << <<>>, ReadmeMd >>,
     << <<S_blog>>, LayoutTsx >>,
     << <<S_blog, S_slug>>, PageTsx >>,
     << <<S_blog, S_slug>>, RouteTs >>,
     << <<S_blog, S_myPost>>, PageTsx >>,
     << <<S_docs, S_catchAll>>, PageTsx >>,
     << <<S_docs, S_optional>>, PageTsx >>,
     << <<S_docs, S_optional>>, LayoutTsx >>,
     << <<S_marketing>>, PageTsx >>,
     << <<S_optional>>, PageTsx >>,
     << <<S_dashboard, S_team>>, PageTsx >>}

\* the first n elements of s
Prefix(s, n) == SubSeq(s, 1, n)

\* scanDirectory finishes a directory, subdirectories included, before it
\* goes on with the next entry of the parent: the files below one directory
\* are consecutive in the list.  readdir fixes no order beyond that.
DepthFirstOrder(list) ==
    \A i, j, k \in 1..Len(list) :
        (i < j /\ j < k) =>
            \A n \in 1..Len(list[i].segments) :
                (/\ Len(list[k].segments) >= n
                 /\ Prefix(list[k].segments, n) = Prefix(list[i].segments, n))
                => (/\ Len(list[j].segments) >= n
                    /\ Prefix(list[j].segments, n) = Prefix(list[i].segments, n))

\* the app directory findNextjsAppDir found below the workspace root
appDirectory == <<"/","w","/","a","p","p">>

\* path.relative(appRoot, fullPath) of a file name in directory dir
RelativePath(dir, name) == Join(Append(dir, name), <<"/">>)

\* path.dirname(p) of a relative path
Dirname(p) ==
    LET parts == Split(p, "/")
    IN  IF Len(parts) = 1 THEN <<".">>
        ELSE Join(Prefix(parts, Len(parts) - 1), <<"/">>)

\* segment && segment !== '.'
KeptSegment(seg) == seg # <<>> /\ seg # <<".">>

\* parseRouteSegments(relativePath)
parseRouteSegments(relativePath) ==
    LET dirPath == Dirname(relativePath)
    IN  IF dirPath = <<".">> THEN <<>>
        ELSE SelectSeq(Split(dirPath, "/"), KeptSegment)

\* the AppRouterFile pushed for a directory entry (scanDirectory, files.push)
AppRouterFile(dir, name) ==
    LET segments == parseRouteSegments(RelativePath(dir, name))
    IN  [filePath |-> appDirectory \o <<"/">> \o RelativePath(dir, name),
         fileName |-> name,
         fileType |-> getFileType(name),
         segments |-> segments,
         routePath |-> buildRoutePath(segments)]

-----------------------------------------------------------------------------
(* utils: scanAppRouterFiles over a directory tree *)

S_nodeModules == <<"n","o","d","e","_","m","o","d","u","l","e","s">>
S_dotNext == <<".","n","e","x","t">>
S_dotGit == <<".","g","i","t">>
S_dist == <<"d","i","s","t">>
S_build == <<"b","u","i","l","d">>
S_tests == <<"_","_","t","e","s","t","s","_","_">>
S_test == <<"_","_","t","e","s","t","_","_">>
S_dotX == <<".","x">>
S_root == <<"r","o","o","t">>

LayoutJs == Layout \o <<".">> \o Js

\* skipPatterns of shouldSkipDirectory
SkipPatterns ==
    {S_nodeModules, S_dotNext, S_dotGit, S_dist, S_build, S_tests, S_test}

\* shouldSkipDirectory without the test for a leading dot
SkipListedOnly(dirName) == dirName \in SkipPatterns

\* shouldSkipDirectory(dirName)
shouldSkipDirectory(dirName) ==
    dirName \in SkipPatterns \/ StartsWith(dirName, <<".">>)

\* a directory tree is the list of its files, <<directory segments, file
\* name>>, in the order readdir yields them: the files below one directory
\* are consecutive
TreeOrder(list) ==
    DepthFirstOrder([i \in 1..Len(list) |-> [segments |-> list[i][1]]])

\* number of leading entries of list that lie in or below directory dir
RECURSIVE BlockLen(_, _)
BlockLen(list, dir) ==
    IF Len(list) = 0 THEN 0
    ELSE IF /\ Len(Head(list)[1]) >= Len(dir)
            /\ Prefix(Head(list)[1], Len(dir)) = dir
         THEN 1 + BlockLen(Tail(list), dir)
         ELSE 0

\* the catch of scanDirectory left out: the error goes on to the caller
RethrowScanError(r) == r

\* the catch block of scanDirectory: the error is logged and the call
\* returns normally
CatchScanError(r) == [r EXCEPT !.failed = FALSE]

RECURSIVE ScanEntries(_, _, _, _)
RECURSIVE scanDirectory(_, _, _, _)
\* the loop of scanDirectory over the entries of currentDir; list holds the
\* files in and below currentDir that are still to be visited, acc is the
\* shared files array.  The result is the array and whether an error left
\* the loop.
ScanEntries(currentDir, list, acc, bad) ==
    IF Len(list) = 0 THEN [files |-> acc, failed |-> FALSE]
    ELSE LET entry == Head(list)
         IN  IF entry[1] = currentDir
             THEN \* entry.isFile()
                  LET file == AppRouterFile(entry[1], entry[2])
                  IN  ScanEntries(currentDir, Tail(list),
                                  IF file.fileType # Null THEN Append(acc, file)
                                                           ELSE acc,
                                  bad)
             ELSE \* entry.isDirectory()
                  LET name == entry[1][Len(currentDir) + 1]
                      fullPath == Append(currentDir, name)
                      n == BlockLen(list, fullPath)
                      rest == SubSeq(list, n + 1, Len(list))
                  IN  IF shouldSkipDirectory(name)
                      THEN ScanEntries(currentDir, rest, acc, bad)
                      ELSE LET r == scanDirectory(fullPath, Prefix(list, n),
                                                  acc, bad)
                           IN  IF r.failed THEN r
                               ELSE ScanEntries(currentDir, rest, r.files, bad)

\* scanDirectory(currentDir, appRoot, files); readdir throws for the
\* directories of bad
scanDirectory(currentDir, list, acc, bad) ==
    CatchScanError(
        IF currentDir \in bad THEN [files |-> acc, failed |-> TRUE]
        ELSE ScanEntries(currentDir, list, acc, bad))

\* the files array of a scan is the array of the scan before it
ReuseFilesArray(previous) == previous

\* const files: AppRouterFile[] = [] of scanAppRouterFiles
NewFilesArray(previous) == <<>>

\* scanAppRouterFiles(appDir): the array, and whether the call threw
scanAppRouterFiles(list, bad, previous) ==
    LET r == scanDirectory(<<>>, list, NewFilesArray(previous), bad)
    IN  [files |-> r.files, failed |-> FALSE]

\* the directories of a tree: the app directory and every directory on the
\* way to a file
TreeDirs(list) ==
    {<<>>} \cup UNION {{Prefix(list[i][1], n) : n \in 0..Len(list[i][1])} :
                         i \in 1..Len(list)}

\* the files a tree can hold
TreeEntries ==
    {<< <<>>, PageTsx >>,
     << <<>>, LayoutTsx >>,
     << <<>>, ReadmeMd >>,
     << <<S_a>>, LayoutTsx >>,
     << <<S_a>>, LayoutJs >>,
     << <<S_a>>, PageTsx >>,
     << <<S_a, S_b>>, PageTsx >>,
     << <<S_a, S_b, S_c>>, PageTsx >>,
     << <<S_dist>>, PageTsx >>,
     << <<S_a, S_dotX>>, LayoutTsx >>,
     << <<S_root>>, LayoutTsx >>,
     << <<S_root, S_a>>, PageTsx >>}

\* the trees of the model
Trees ==
    {t \in SeqsUpTo(TreeEntries, MaxTreeFiles) :
        /\ \A i, j \in 1..Len(t) : i # j => t[i] # t[j]
        /\ TreeOrder(t)}

-----------------------------------------------------------------------------
(* utils: buildRouteHierarchy *)

generateRouteId(segments, fileType) ==
    LET pathPart == IF Len(segments) > 0 THEN Join(segments, <<"/">>)
                    ELSE <<"r","o","o","t">>
    IN  pathPart \o <<"-">> \o fileType

\* routeMap.has(id); routeMap is a function from ids to indices into nodes
MapHas(routeMap, id) == id \in DOMAIN routeMap

findParentRouteId(segments, fileType, routeMap) ==
    IF Len(segments) = 0 THEN Null
    ELSE LET layoutId == generateRouteId(segments, Layout)
             parentSegments == SubSeq(segments, 1, Len(segments) - 1)
             parentLayoutId == generateRouteId(parentSegments, Layout)
         IN  IF MapHas(routeMap, layoutId) THEN layoutId
             ELSE IF Len(parentSegments) > 0 /\ MapHas(routeMap, parentLayoutId)
                  THEN parentLayoutId
             ELSE Null

RECURSIVE determineOverallPattern(_)
determineOverallPattern(segments) ==
    IF Len(segments) = 0 THEN Static
    ELSE IF getRoutingPattern(Head(segments)) # Static
         THEN getRoutingPattern(Head(segments))
    ELSE determineOverallPattern(Tail(segments))

\* formatSegmentForDisplay(segment)
formatSegmentForDisplay(seg) ==
    IF StartsWith(seg, <<"[">>) /\ EndsWith(seg, <<"]">>)
    THEN LET inner == SliceTrim(seg, 1, 1)
         IN  IF StartsWith(inner, <<".",".",".">>)
             THEN <<"[",".",".",".">> \o SliceFrom(inner, 3) \o <<"]">>
             ELSE <<"[">> \o inner \o <<"]">>
    ELSE IF StartsWith(seg, <<"(">>) /\ EndsWith(seg, <<")">>)
    THEN <<"(">> \o SliceTrim(seg, 1, 1) \o <<")">>
    ELSE IF StartsWith(seg, <<"@">>)
    THEN <<"@">> \o SliceFrom(seg, 1)
    ELSE seg

\* generateRouteLabel(segments, fileType)
generateRouteLabel(segments, fileType) ==
    IF Len(segments) = 0
    THEN IF fileType = Page THEN <<"/">> ELSE <<"/">> \o fileType
    ELSE LET lastSegment == segments[Len(segments)]
         IN  IF fileType # Page THEN lastSegment \o <<"/">> \o fileType
             ELSE formatSegmentForDisplay(lastSegment)

\* createRouteItem / new RouteItem(...): the fields the engine and the
\* provider read
createRouteItem(file, routeId, parentId) ==
    [id |-> routeId,
     label |-> generateRouteLabel(file.segments, file.fileType),
     filePath |-> file.filePath,
     path |-> file.routePath,
     fileType |-> file.fileType,
     pattern |-> determineOverallPattern(file.segments),
     segments |-> file.segments,
     parentId |-> parentId,
     isPage |-> (file.fileType = Page),
     children |-> <<>>]

\* RouteItem.canHaveChildren
canHaveChildren(item) ==
    item.fileType \in {Layout, Template} \/ item.pattern = RouteGroup

\* the longest segment list among the files
MaxDepth(list) ==
    IF Len(list) = 0 THEN 0
    ELSE CHOOSE d \in {Len(list[i].segments) : i \in 1..Len(list)} :
            \A i \in 1..Len(list) : Len(list[i].segments) <= d

RECURSIVE SortByDepthFrom(_, _)
\* files.sort((a, b) => a.segments.length - b.segments.length): the sort is
\* stable, files of equal depth keep their order
SortByDepthFrom(list, d) ==
    IF d > MaxDepth(list) THEN <<>>
    ELSE LET AtDepth(f) == Len(f.segments) = d
         IN  SelectSeq(list, AtDepth) \o SortByDepthFrom(list, d + 1)

SortByDepth(list) == SortByDepthFrom(list, 0)

\* one iteration of the loop of buildRouteHierarchy
HierarchyStep(acc, file) ==
    LET routeId == generateRouteId(file.segments, file.fileType)
        parentId == findParentRouteId(file.segments, file.fileType, acc.routeMap)
        routeItem == createRouteItem(file, routeId, parentId)
        idx == Len(acc.nodes) + 1
        withItem == Append(acc.nodes, routeItem)
        newMap == (routeId :> idx) @@ acc.routeMap
    IN  IF parentId # Null /\ MapHas(newMap, parentId)
           /\ canHaveChildren(withItem[newMap[parentId]])
        THEN LET p == newMap[parentId]
             IN  [nodes |-> [withItem EXCEPT ![p].children = Append(@, idx)],
                  routeMap |-> newMap,
                  rootRoutes |-> acc.rootRoutes]
        ELSE [nodes |-> withItem,
              routeMap |-> newMap,
              rootRoutes |-> Append(acc.rootRoutes, idx)]

RECURSIVE HierarchyLoop(_, _)
HierarchyLoop(acc, sortedFiles) ==
    IF Len(sortedFiles) = 0 THEN acc
    ELSE HierarchyLoop(HierarchyStep(acc, Head(sortedFiles)), Tail(sortedFiles))

\* buildRouteHierarchy(files): the objects created and the roots returned
buildRouteHierarchy(list) ==
    HierarchyLoop([nodes |-> <<>>, routeMap |-> <<>>, rootRoutes |-> <<>>],
                  SortByDepth(list))

-----------------------------------------------------------------------------
(* The URL class of the runtime: new URL(s).pathname *)

Alpha ==
    {"a","b","c","d","e","f","g","h","i","j","k","l","m",
     "n","o","p","q","r","s","t","u","v","w","x","y","z"}

Digit == {"0","1","2","3","4","5","6","7","8","9"}

SpecialSchemes == {<<"h","t","t","p">>, <<"h","t","t","p","s">>}

RECURSIVE StripLeadingSlashes(_)
StripLeadingSlashes(s) ==
    IF Len(s) > 0 /\ s[1] = "/" THEN StripLeadingSlashes(Tail(s)) ELSE s

\* position of the first character of s that lies in stop, Len(s) + 1 if none
FirstOf(s, stop) ==
    IF \E i \in 1..Len(s) : s[i] \in stop
    THEN CHOOSE i \in 1..Len(s) : s[i] \in stop /\ \A j \in 1..(i - 1) : s[j] \notin stop
    ELSE Len(s) + 1

\* host[:port] as the host parser accepts it, for hosts written with
\* letters, digits, '-' and '.'
ValidAuthority(authority, emptyHostAllowed) ==
    LET colon == IndexOfChar(authority, ":")
        host == IF colon = 0 THEN authority ELSE SubSeq(authority, 1, colon - 1)
        port == IF colon = 0 THEN <<>> ELSE SubSeq(authority, colon + 1, Len(authority))
    IN  /\ (Len(host) > 0 \/ (emptyHostAllowed /\ colon = 0))
        /\ \A i \in 1..Len(host) : host[i] \in Alpha \cup Digit \cup {"-", "."}
        /\ \A i \in 1..Len(port) : port[i] \in Digit

\* new URL(s) without a base: [ok |-> FALSE] when the constructor throws
\* TypeError, otherwise the pathname.  Covers inputs whose path has no dot
\* segment and no character that is percent-encoded.
URLPathname(s) ==
    LET colon == IndexOfChar(s, ":")
        scheme == SubSeq(s, 1, colon - 1)
        rest == SubSeq(s, colon + 1, Len(s))
        validScheme ==
            /\ colon > 1
            /\ scheme[1] \in Alpha
            /\ \A i \in 1..Len(scheme) : scheme[i] \in Alpha \cup Digit \cup {"+", "-", "."}
        special == scheme \in SpecialSchemes
        hasAuthority == special \/ StartsWith(rest, <<"/", "/">>)
        afterSlashes == IF special THEN StripLeadingSlashes(rest) ELSE SliceFrom(rest, 2)
        authEnd == FirstOf(afterSlashes, {"/", "?", "#"})
        authority == SubSeq(afterSlashes, 1, authEnd - 1)
        afterAuthority == SubSeq(afterSlashes, authEnd, Len(afterSlashes))
        pathOf(t) == SubSeq(t, 1, FirstOf(t, {"?", "#"}) - 1)
    IN  IF ~validScheme THEN [ok |-> FALSE, pathname |-> <<>>]
        ELSE IF hasAuthority
        THEN IF ~ValidAuthority(authority, ~special)
             THEN [ok |-> FALSE, pathname |-> <<>>]
             ELSE [ok |-> TRUE,
                   pathname |-> IF special /\ pathOf(afterAuthority) = <<>>
                                THEN <<"/">> ELSE pathOf(afterAuthority)]
        ELSE [ok |-> TRUE, pathname |-> pathOf(rest)]

-----------------------------------------------------------------------------
(* utils: matchUrlToRoute *)

\* cleanUrl(url): raised is TRUE when new URL(url) throws
cleanUrl(u) ==
    LET parsed == URLPathname(u)
        p0 == IF Includes(u, <<":", "/", "/">>) THEN parsed.pathname ELSE u
        p1 == Split(Split(p0, "?")[1], "#")[1]
        p2 == CollapseSlashes(p1)
    IN  IF Includes(u, <<":", "/", "/">>) /\ ~parsed.ok
        THEN [raised |-> TRUE, path |-> <<>>]
        ELSE [raised |-> FALSE,
              path |-> IF p2 # <<"/">> /\ EndsWith(p2, <<"/">>)
                       THEN SliceTrim(p2, 0, 1) ELSE p2]

RECURSIVE MatchFrom(_, _, _, _)
\* the while loop of matchSegments, indices counted from 1
MatchFrom(urlSegments, routeSegments, urlIndex, routeIndex) ==
    IF routeIndex > Len(routeSegments) THEN urlIndex = Len(urlSegments) + 1
    ELSE LET routeSegment == routeSegments[routeIndex]
         IN  IF isOptionalCatchAllSegment(routeSegment) THEN TRUE
             ELSE IF isCatchAllSegment(routeSegment) THEN urlIndex <= Len(urlSegments)
             ELSE IF isDynamicSegment(routeSegment)
                  THEN IF urlIndex > Len(urlSegments) THEN FALSE
                       ELSE MatchFrom(urlSegments, routeSegments, urlIndex + 1, routeIndex + 1)
             ELSE IF StartsWith(routeSegment, <<"@">>)
                  THEN MatchFrom(urlSegments, routeSegments, urlIndex, routeIndex + 1)
             ELSE IF urlIndex > Len(urlSegments) \/ urlSegments[urlIndex] # routeSegment
                  THEN FALSE
                  ELSE MatchFrom(urlSegments, routeSegments, urlIndex + 1, routeIndex + 1)

RECURSIVE MatchFromPositional(_, _, _, _)
\* the while loop without the branch that skips parallel routes: a segment
\* '@name' is compared like a static segment
MatchFromPositional(urlSegments, routeSegments, urlIndex, routeIndex) ==
    IF routeIndex > Len(routeSegments) THEN urlIndex = Len(urlSegments) + 1
    ELSE LET routeSegment == routeSegments[routeIndex]
         IN  IF isOptionalCatchAllSegment(routeSegment) THEN TRUE
             ELSE IF isCatchAllSegment(routeSegment) THEN urlIndex <= Len(urlSegments)
             ELSE IF isDynamicSegment(routeSegment)
                  THEN IF urlIndex > Len(urlSegments) THEN FALSE
                       ELSE MatchFromPositional(urlSegments, routeSegments,
                                                urlIndex + 1, routeIndex + 1)
             ELSE IF urlIndex > Len(urlSegments) \/ urlSegments[urlIndex] # routeSegment
                  THEN FALSE
                  ELSE MatchFromPositional(urlSegments, routeSegments,
                                           urlIndex + 1, routeIndex + 1)

\* matchSegments in which parallel routes take a position of the URL
MatchSegmentsPositional(urlSegments, routeSegments) ==
    MatchFromPositional(urlSegments, routeSegments, 1, 1)

\* matchSegments(urlSegments, routeSegments)
matchSegments(urlSegments, routeSegments) == MatchFrom(urlSegments, routeSegments, 1, 1)

\* isRouteMatch without the isPage test
IsRouteMatchAnyRole(urlSegments, route) ==
    LET routeSegments == SelectSeq(route.segments, NotRouteGroup)
    IN  IF Len(routeSegments) = 0 THEN Len(urlSegments) = 0
        ELSE matchSegments(urlSegments, routeSegments)

isRouteMatch(urlSegments, route) ==
    IF ~route.isPage THEN FALSE
    ELSE LET routeSegments == SelectSeq(route.segments, NotRouteGroup)
         IN  IF Len(routeSegments) = 0 THEN Len(urlSegments) = 0
             ELSE matchSegments(urlSegments, routeSegments)

RECURSIVE FindLastMatch(_, _, _)
\* findMatchingRoute that keeps looking and returns the last match
FindLastMatch(urlSegments, items, ns) ==
    IF Len(items) = 0 THEN 0
    ELSE LET route == Head(items)
             childMatch == FindLastMatch(urlSegments, ns[route].children, ns)
             later == FindLastMatch(urlSegments, Tail(items), ns)
         IN  IF later # 0 THEN later
             ELSE IF childMatch # 0 THEN childMatch
             ELSE IF isRouteMatch(urlSegments, ns[route]) THEN route
             ELSE 0

RECURSIVE findMatchingRoute(_, _, _)
\* routes is a list of indices into ns; the result is an index, 0 for null
findMatchingRoute(urlSegments, items, ns) ==
    IF Len(items) = 0 THEN 0
    ELSE LET route == Head(items)
             childMatch == findMatchingRoute(urlSegments, ns[route].children, ns)
         IN  IF isRouteMatch(urlSegments, ns[route]) THEN route
             ELSE IF childMatch # 0 THEN childMatch
             ELSE findMatchingRoute(urlSegments, Tail(items), ns)

\* the split without the special case of the root path
UrlSegmentsNoRoot(cleanPath) == Split(cleanPath, "/")

\* the segments matchUrlToRoute hands to findMatchingRoute
UrlSegments(cleanPath) ==
    IF cleanPath = <<"/">> THEN <<>> ELSE Split(cleanPath, "/")

matchUrlToRoute(u, items, ns) ==
    LET clean == cleanUrl(u)
    IN  IF clean.raised THEN [raised |-> TRUE, route |-> 0]
        ELSE [raised |-> FALSE,
              route |-> findMatchingRoute(UrlSegments(clean.path), items, ns)]

-----------------------------------------------------------------------------
(* Inputs of matchUrlToRoute *)

UrlPaths ==
    {<<>>, <<S_blog>>, <<S_blog, S_myPost>>, <<S_blog, S_x>>, <<S_docs>>,
     <<S_docs, S_a, S_b, S_c>>, <<S_dashboard>>}

Origin == <<"h","t","t","p",":","/","/","h">>

AbsPath(p) == <<"/">> \o Join(p, <<"/">>)

\* bare paths with and without leading slash, trailing slash, query and
\* fragment, absolute URLs, and strings that hold '://' without being a URL
Urls ==
    {AbsPath(p) : p \in UrlPaths}
    \cup {Join(p, <<"/">>) : p \in UrlPaths}
    \cup {AbsPath(p) \o <<"/">> : p \in UrlPaths}
    \cup {AbsPath(p) \o <<"?", "q">> : p \in UrlPaths}
    \cup {AbsPath(p) \o <<"#", "f">> : p \in UrlPaths}
    \cup {Origin \o AbsPath(p) : p \in UrlPaths}
    \cup {Origin}
    \cup {<<"h","t","t","p",":","/","/">> \o AbsPath(p) : p \in UrlPaths}
    \cup {AbsPath(p) \o <<"?","r","=","a",":","/","/","b">> : p \in UrlPaths}
    \cup {<<":", "/", "/">> \o Join(p, <<"/">>) : p \in UrlPaths}

-----------------------------------------------------------------------------
(* providers/routesProvider.ts: view, sorting and search *)

RECURSIVE RouteTrees(_, _)
\* the RouteItem objects of a list, each with the objects below it
RouteTrees(items, ns) ==
    [k \in 1..Len(items) |->
        [ns[items[k]] EXCEPT
            !.children = RouteTrees(ns[items[k]].children, ns)]]

RECURSIVE Indent(_)
\* '  '.repeat(depth)
Indent(depth) == IF depth = 0 THEN <<>> ELSE <<" ", " ">> \o Indent(depth - 1)

RECURSIVE Flatten(_, _, _)
\* flatten(items, depth) of flattenRoutes: copies without children
Flatten(items, depth, viewType) ==
    IF Len(items) = 0 THEN <<>>
    ELSE LET item == Head(items)
             flatItem ==
                 [item EXCEPT
                     !.label = IF viewType = "flat"
                               THEN Indent(depth) \o item.label
                               ELSE item.label,
                     !.children = <<>>]
         IN  <<flatItem>> \o Flatten(item.children, depth + 1, viewType)
                          \o Flatten(Tail(items), depth, viewType)

\* flattenRoutes(routes)
flattenRoutes(items, viewType) == Flatten(items, 0, viewType)

\* the characters of labels and paths in the order of the root collation:
\* white space, punctuation, letters
CollationOrder ==
    <<" ", "_", "-", ",", ";", ":", "!", "?", ".", "'", "(", ")", "[", "]",
      "{", "}", "@", "*", "/", "&", "#", "%",
      "a", "b", "c", "d", "e", "f", "g", "h", "i", "j", "k", "l", "m",
      "n", "o", "p", "q", "r", "s", "t", "u", "v", "w", "x", "y", "z">>

CollationRank(c) ==
    CHOOSE i \in 1..Len(CollationOrder) : CollationOrder[i] = c

RECURSIVE localeCompare(_, _)
\* a.localeCompare(b) for strings of lower-case letters, punctuation and
\* blanks: negative, zero or positive
localeCompare(a, b) ==
    IF Len(a) = 0 /\ Len(b) = 0 THEN 0
    ELSE IF Len(a) = 0 THEN -1
    ELSE IF Len(b) = 0 THEN 1
    ELSE IF CollationRank(a[1]) < CollationRank(b[1]) THEN -1
    ELSE IF CollationRank(a[1]) > CollationRank(b[1]) THEN 1
    ELSE localeCompare(Tail(a), Tail(b))

\* naturalSort(a, b): localeCompare with numeric collation, which differs
\* from the plain one only for strings with digits
naturalSort(a, b) == localeCompare(a, b)

\* getRouteDepth(route)
getRouteDepth(route) == Len(route.segments)

\* the comparison callbacks of sortRoutes (natural) and of applySorting
\* (basic)
CompareRoutes(sortingType, a, b) ==
    IF sortingType = "natural"
    THEN LET depthDiff == getRouteDepth(a) - getRouteDepth(b)
         IN  IF depthDiff # 0 THEN depthDiff ELSE naturalSort(a.path, b.path)
    ELSE localeCompare(a.label, b.label)

RECURSIVE InsertRoute(_, _, _)
\* item placed behind every element of the sorted list that does not
\* compare greater: Array.prototype.sort is stable
InsertRoute(sortingType, item, sorted) ==
    IF Len(sorted) = 0 THEN <<item>>
    ELSE IF CompareRoutes(sortingType, Head(sorted), item) > 0
         THEN <<item>> \o sorted
         ELSE <<Head(sorted)>> \o InsertRoute(sortingType, item, Tail(sorted))

RECURSIVE SortRoutesFrom(_, _, _)
SortRoutesFrom(sortingType, items, sorted) ==
    IF Len(items) = 0 THEN sorted
    ELSE SortRoutesFrom(sortingType, Tail(items),
                        InsertRoute(sortingType, Head(items), sorted))

\* sortRoutes(routes)
sortRoutes(items) == SortRoutesFrom("natural", items, <<>>)

\* applySorting(routes): the top-level list only
applySorting(items, sortingType) ==
    IF sortingType = "natural" THEN sortRoutes(items)
    ELSE SortRoutesFrom("basic", items, <<>>)

UpperCase ==
    <<"A", "B", "C", "D", "E", "F", "G", "H", "I", "J", "K", "L", "M",
      "N", "O", "P", "Q", "R", "S", "T", "U", "V", "W", "X", "Y", "Z">>

LowerCase ==
    <<"a", "b", "c", "d", "e", "f", "g", "h", "i", "j", "k", "l", "m",
      "n", "o", "p", "q", "r", "s", "t", "u", "v", "w", "x", "y", "z">>

\* s.toLowerCase()
toLowerCase(s) ==
    [i \in 1..Len(s) |->
        IF \E k \in 1..Len(UpperCase) : UpperCase[k] = s[i]
        THEN LowerCase[CHOOSE k \in 1..Len(UpperCase) : UpperCase[k] = s[i]]
        ELSE s[i]]

RECURSIVE trimStart(_)
trimStart(s) ==
    IF Len(s) > 0 /\ s[1] = " " THEN trimStart(Tail(s)) ELSE s

RECURSIVE trimEnd(_)
trimEnd(s) ==
    IF Len(s) > 0 /\ s[Len(s)] = " " THEN trimEnd(SubSeq(s, 1, Len(s) - 1))
    ELSE s

\* s.trim()
trim(s) == trimEnd(trimStart(s))

RECURSIVE filterRoutes(_, _)
\* filterRoutes(routes, query)
filterRoutes(items, query) ==
    IF trim(query) = <<>> THEN items
    ELSE IF Len(items) = 0 THEN <<>>
    ELSE LET route == Head(items)
             matchesSearch ==
                 \/ Includes(toLowerCase(route.label), query)
                 \/ Includes(toLowerCase(route.path), query)
                 \/ Includes(toLowerCase(route.filePath), query)
                 \/ Includes(toLowerCase(route.fileType), query)
             filteredChildren ==
                 IF Len(route.children) > 0
                 THEN filterRoutes(route.children, query)
                 ELSE <<>>
             rest == filterRoutes(Tail(items), query)
         IN  IF matchesSearch \/ Len(filteredChildren) > 0
             THEN <<[route EXCEPT !.children = filteredChildren]>> \o rest
             ELSE rest

\* the body of refresh without its search filter: the filtered routes are
\* the routes
RebuildUnfiltered(scanned, conf, query) ==
    LET built == buildRouteHierarchy(scanned)
        allRoutes == RouteTrees(built.rootRoutes, built.nodes)
        viewed == IF conf.viewType = "flat"
                  THEN flattenRoutes(allRoutes, conf.viewType)
                  ELSE allRoutes
        sorted == applySorting(viewed, conf.sortingType)
    IN  [allFiles |-> SortByDepth(scanned),
         routes |-> sorted,
         filteredRoutes |-> sorted]

\* the body of refresh after the scan has returned: the fields it assigns
Rebuild(scanned, conf, query) ==
    LET built == buildRouteHierarchy(scanned)
        allRoutes == RouteTrees(built.rootRoutes, built.nodes)
        viewed == IF conf.viewType = "flat"
                  THEN flattenRoutes(allRoutes, conf.viewType)
                  ELSE allRoutes
        sorted == applySorting(viewed, conf.sortingType)
    IN  [allFiles |-> SortByDepth(scanned),
         routes |-> sorted,
         filteredRoutes |-> IF query # <<>>
                            THEN filterRoutes(sorted, toLowerCase(query))
                            ELSE sorted]

-----------------------------------------------------------------------------
(* Runs *)

\* the values of the variables a run does not use
IdleClassify ==
    /\ filename = <<>> /\ fileTypeOut = Null
    /\ segment = <<>> /\ patternOut = Null
    /\ segs = <<>> /\ pathOut = Null

IdleEngine ==
    /\ files = <<>> /\ nodes = <<>> /\ rootRoutes = <<>>
    /\ url = <<>> /\ matched = 0 /\ raised = FALSE

IdleScan ==
    /\ tree = <<>> /\ unreadable = {} /\ scanFailed = FALSE
    /\ runs = 0 /\ prevNodes = <<>> /\ prevRoots = <<>>

IdleId == idArgs = <<>> /\ idOut = <<>>

IdleSegments ==
    /\ urlSegs = <<>> /\ routeSegs = <<>>
    /\ segmentsMatch = FALSE /\ routeMatch = FALSE

IdleProvider ==
    /\ configFile = <<>> /\ settings = <<>> /\ config = <<>>
    /\ searchQuery = <<>> /\ allFiles = <<>> /\ routes = <<>>
    /\ filteredRoutes = <<>> /\ refreshing = <<>> /\ loading = 0
    /\ watching = FALSE /\ fired = 0 /\ owed = FALSE /\ events = 0

IdleOther == IdleScan /\ IdleId /\ IdleSegments /\ IdleProvider

\* getFileType(filename)
GetFileType ==
    /\ pc = "file"
    /\ fileTypeOut' = getFileType(filename)
    /\ pc' = "fileDone"
    /\ UNCHANGED <<filename, segment, patternOut, segs, pathOut,
                   files, nodes, rootRoutes, url, matched, raised,
                   otherVars>>

InitFile ==
    /\ pc = "file"
    /\ filename \in FileNames
    /\ fileTypeOut = Null
    /\ segment = <<>> /\ patternOut = Null /\ segs = <<>> /\ pathOut = Null
    /\ IdleEngine
    /\ IdleOther

NextFile == GetFileType

SpecFile == InitFile /\ [][NextFile]_vars

\* getRoutingPattern(segment)
GetRoutingPattern ==
    /\ pc = "segment"
    /\ patternOut' = getRoutingPattern(segment)
    /\ pc' = "segmentDone"
    /\ UNCHANGED <<filename, fileTypeOut, segment, segs, pathOut,
                   files, nodes, rootRoutes, url, matched, raised,
                   otherVars>>

InitSegment ==
    /\ pc = "segment"
    /\ segment \in Segments
    /\ patternOut = Null
    /\ filename = <<>> /\ fileTypeOut = Null /\ segs = <<>> /\ pathOut = Null
    /\ IdleEngine
    /\ IdleOther

NextSegment == GetRoutingPattern

SpecSegment == InitSegment /\ [][NextSegment]_vars

\* buildRoutePath(segs)
BuildRoutePath ==
    /\ pc = "path"
    /\ pathOut' = buildRoutePath(segs)
    /\ pc' = "pathDone"
    /\ UNCHANGED <<filename, fileTypeOut, segment, patternOut, segs,
                   files, nodes, rootRoutes, url, matched, raised,
                   otherVars>>

InitPath ==
    /\ pc = "path"
    /\ segs \in SegmentLists
    /\ pathOut = Null
    /\ filename = <<>> /\ fileTypeOut = Null /\ segment = <<>> /\ patternOut = Null
    /\ IdleEngine
    /\ IdleOther

NextPath == BuildRoutePath

SpecPath == InitPath /\ [][NextPath]_vars

\* scanDirectory reaches a file entry of a directory and pushes it when
\* getFileType knows the name
ScanDirectory ==
    /\ pc = "scan"
    /\ Len(files) < MaxFiles
    /\ \E e \in DirEntries :
        LET file == AppRouterFile(e[1], e[2])
        IN  /\ file.fileType # Null
            /\ \A i \in 1..Len(files) :
                   <<files[i].segments, files[i].fileName>> # e
            /\ DepthFirstOrder(Append(files, file))
            /\ files' = Append(files, file)
    /\ UNCHANGED <<pc, filename, fileTypeOut, segment, patternOut, segs, pathOut,
                   nodes, rootRoutes, url, matched, raised,
                   otherVars>>

\* the scan has returned; buildRouteHierarchy(files) sorts files in place and
\* builds the forest
BuildRouteHierarchy ==
    /\ pc = "scan"
    /\ LET built == buildRouteHierarchy(files)
       IN  /\ nodes' = built.nodes
           /\ rootRoutes' = built.rootRoutes
    /\ files' = SortByDepth(files)
    /\ pc' = "built"
    /\ UNCHANGED <<filename, fileTypeOut, segment, patternOut, segs, pathOut,
                   url, matched, raised,
                   otherVars>>

\* matchUrlToRoute(u, rootRoutes)
MatchUrlToRoute ==
    /\ pc = "built"
    /\ \E u \in Urls :
        LET r == matchUrlToRoute(u, rootRoutes, nodes)
        IN  /\ url' = u
            /\ matched' = r.route
            /\ raised' = r.raised
    /\ pc' = "matched"
    /\ UNCHANGED <<filename, fileTypeOut, segment, patternOut, segs, pathOut,
                   files, nodes, rootRoutes,
                   otherVars>>

InitMatch ==
    /\ pc = "scan"
    /\ IdleClassify
    /\ IdleEngine
    /\ IdleOther

NextMatch == ScanDirectory \/ BuildRouteHierarchy \/ MatchUrlToRoute

SpecMatch == InitMatch /\ [][NextMatch]_vars

\* scanAppRouterFiles(appDirectory) over the tree; the forest built from the
\* scan before it is kept for comparison
ScanAppRouterFiles ==
    /\ pc \in {"idle", "built"}
    /\ runs < MaxRuns
    /\ LET r == scanAppRouterFiles(tree, unreadable, files)
       IN  /\ files' = r.files
           /\ scanFailed' = r.failed
    /\ prevNodes' = nodes
    /\ prevRoots' = rootRoutes
    /\ runs' = runs + 1
    /\ pc' = "scan"
    /\ UNCHANGED <<filename, fileTypeOut, segment, patternOut, segs, pathOut,
                   nodes, rootRoutes, url, matched, raised,
                   tree, unreadable, idVars, segmentVars, providerVars>>

InitScan ==
    /\ pc = "idle"
    /\ IdleClassify
    /\ IdleEngine
    /\ tree \in Trees
    /\ unreadable \in {bad \in SUBSET TreeDirs(tree) : Cardinality(bad) <= 1}
    /\ scanFailed = FALSE
    /\ runs = 0 /\ prevNodes = <<>> /\ prevRoots = <<>>
    /\ IdleId
    /\ IdleSegments
    /\ IdleProvider

NextScan == ScanAppRouterFiles \/ BuildRouteHierarchy

SpecScan == InitScan /\ [][NextScan]_vars

S_xGlobal == <<"x","-","g","l","o","b","a","l">>

\* the arguments of generateRouteId: the segments and the role of a file
IdArguments ==
    {<<p, RouteFileType[t]>> :
        p \in SeqsUpTo({S_root, S_x, S_xGlobal}, MaxIdSegs),
        t \in 1..Len(RouteFileType)}

\* generateRouteId for two files
GenerateRouteId ==
    /\ pc = "id"
    /\ idOut' = <<generateRouteId(idArgs[1][1], idArgs[1][2]),
                  generateRouteId(idArgs[2][1], idArgs[2][2])>>
    /\ pc' = "idDone"
    /\ UNCHANGED <<filename, fileTypeOut, segment, patternOut, segs, pathOut,
                   files, nodes, rootRoutes, url, matched, raised,
                   scanVars, idArgs, segmentVars, providerVars>>

InitId ==
    /\ pc = "id"
    /\ IdleClassify
    /\ IdleEngine
    /\ IdleScan
    /\ idArgs \in IdArguments \X IdArguments
    /\ idOut = <<>>
    /\ IdleSegments
    /\ IdleProvider

NextId == GenerateRouteId

SpecId == InitId /\ [][NextId]_vars

-----------------------------------------------------------------------------
(* Runs of the provider *)

ViewTypes == {"hierarchical", "flat"}
SortingTypes == {"natural", "basic"}

\* a key the configuration file or the settings do not hold
Unset == "unset"

\* getDefaultConfig(): the options the provider's view depends on
getDefaultConfig == [viewType |-> "hierarchical", sortingType |-> "natural"]

\* workspaceConfig.get(key, defaultValue), and a key of the spread
\* {...this.config, ...loadedConfig}
ValueOr(value, defaultValue) == IF value = Unset THEN defaultValue ELSE value

\* this.config after loadConfiguration(): JSON.parse of an invalid file
\* throws, the catch logs, and the settings are not read either
loadConfiguration(conf, file, sett) ==
    IF file.exists /\ ~file.valid THEN conf
    ELSE LET merged ==
                 IF file.exists
                 THEN [viewType |-> ValueOr(file.viewType, conf.viewType),
                       sortingType |-> ValueOr(file.sortingType, conf.sortingType)]
                 ELSE conf
         IN  [viewType |-> ValueOr(sett.viewType, merged.viewType),
              sortingType |-> ValueOr(sett.sortingType, merged.sortingType)]

\* the contents .vscode/nextjs-radar.json can have
ConfigFiles ==
    {[exists |-> FALSE, valid |-> TRUE, viewType |-> Unset, sortingType |-> Unset],
     [exists |-> TRUE, valid |-> FALSE, viewType |-> Unset, sortingType |-> Unset],
     [exists |-> TRUE, valid |-> TRUE, viewType |-> "flat", sortingType |-> Unset]}

\* the values of the nextjsRadar settings
Settings == [viewType : {Unset, "flat"}, sortingType : {Unset, "basic"}]

\* the files the app directory of the provider runs can hold
ProviderEntries == {<< <<S_a>>, LayoutTsx >>, << <<S_a>>, PageTsx >>}

ProviderTrees ==
    {t \in Trees : \A i \in 1..Len(t) : t[i] \in ProviderEntries}

\* the arguments of applySearch
Queries == {<<>>, <<"a">>, <<" ", "P", "a", "g", "e">>}

\* s without its element i
RemoveAt(s, i) == SubSeq(s, 1, i - 1) \o SubSeq(s, i + 1, Len(s))

\* the refresh calls in the order they were made; call i ends while those
\* made before it are still suspended.  They are marked when the directory
\* tree has not changed since call i was made.
Overtake(s, i) ==
    [k \in 1..Len(s) |->
        IF k < i
        THEN [s[k] EXCEPT !.overtaken = (@ \/ ~s[i].changedSince)]
        ELSE s[k]]

\* the directory tree changes while the calls are suspended
Changed(s) ==
    [k \in 1..Len(s) |->
        [s[k] EXCEPT !.changedSince = TRUE, !.overtaken = FALSE]]

\* a refresh call that has passed its test of appDirectory and awaits
\* scanAppRouterFiles
StartedRefresh(initial) ==
    [scanned |-> FALSE, scan |-> <<>>, rootFailed |-> FALSE, fresh |-> FALSE,
     initial |-> initial, changedSince |-> FALSE, overtaken |-> FALSE]

\* refresh() is called: the call runs up to its await
CallRefresh(calls) ==
    /\ appDirectory # Null
    /\ Len(calls) < MaxInflight
    /\ refreshing' = Append(calls, StartedRefresh(FALSE))

\* a file below the app directory is created, deleted or changed; the
\* watcher, once set up, calls refresh()
FileEvent ==
    /\ pc = "provider"
    /\ events < MaxEvents
    /\ tree' \in ProviderTrees
    /\ LET calls == IF tree' = tree THEN refreshing ELSE Changed(refreshing)
       IN  IF watching THEN CallRefresh(calls) ELSE refreshing' = calls
    /\ events' = events + 1
    /\ UNCHANGED <<pc, filename, fileTypeOut, segment, patternOut, segs, pathOut,
                   files, nodes, rootRoutes, url, matched, raised,
                   unreadable, scanFailed, runs, prevNodes, prevRoots, idVars,
                   segmentVars,
                   configFile, settings, config, searchQuery, allFiles, routes,
                   filteredRoutes, loading, watching, fired, owed>>

\* the app directory becomes unreadable or readable again; no file of the
\* watched pattern changes
PermissionChange ==
    /\ pc = "provider"
    /\ events < MaxEvents
    /\ unreadable' \in {{}, {<<>>}} \ {unreadable}
    /\ refreshing' = Changed(refreshing)
    /\ events' = events + 1
    /\ UNCHANGED <<pc, filename, fileTypeOut, segment, patternOut, segs, pathOut,
                   files, nodes, rootRoutes, url, matched, raised,
                   tree, scanFailed, runs, prevNodes, prevRoots, idVars,
                   segmentVars,
                   configFile, settings, config, searchQuery, allFiles, routes,
                   filteredRoutes, loading, watching, fired, owed>>

\* command nextjsRadar.refreshRoutes
RefreshCommand ==
    /\ pc = "provider"
    /\ events < MaxEvents
    /\ CallRefresh(refreshing)
    /\ events' = events + 1
    /\ UNCHANGED <<pc, filename, fileTypeOut, segment, patternOut, segs, pathOut,
                   files, nodes, rootRoutes, url, matched, raised,
                   scanVars, idVars, segmentVars,
                   configFile, settings, config, searchQuery, allFiles, routes,
                   filteredRoutes, loading, watching, fired, owed>>

\* setViewType(viewType)
SetViewType ==
    /\ pc = "provider"
    /\ events < MaxEvents
    /\ \E viewType \in ViewTypes : config' = [config EXCEPT !.viewType = viewType]
    /\ CallRefresh(refreshing)
    /\ events' = events + 1
    /\ UNCHANGED <<pc, filename, fileTypeOut, segment, patternOut, segs, pathOut,
                   files, nodes, rootRoutes, url, matched, raised,
                   scanVars, idVars, segmentVars,
                   configFile, settings, searchQuery, allFiles, routes,
                   filteredRoutes, loading, watching, fired, owed>>

\* setSortingType(sortingType)
SetSortingType ==
    /\ pc = "provider"
    /\ events < MaxEvents
    /\ \E sortingType \in SortingTypes :
        config' = [config EXCEPT !.sortingType = sortingType]
    /\ CallRefresh(refreshing)
    /\ events' = events + 1
    /\ UNCHANGED <<pc, filename, fileTypeOut, segment, patternOut, segs, pathOut,
                   files, nodes, rootRoutes, url, matched, raised,
                   scanVars, idVars, segmentVars,
                   configFile, settings, searchQuery, allFiles, routes,
                   filteredRoutes, loading, watching, fired, owed>>

\* applySearch(query)
ApplySearch ==
    /\ pc = "provider"
    /\ events < MaxEvents
    /\ \E query \in Queries :
        LET q == trim(toLowerCase(query))
        IN  /\ searchQuery' = q
            /\ filteredRoutes' = IF q = <<>> THEN routes
                                 ELSE filterRoutes(routes, q)
    /\ fired' = fired + 1
    /\ events' = events + 1
    /\ UNCHANGED <<pc, filename, fileTypeOut, segment, patternOut, segs, pathOut,
                   files, nodes, rootRoutes, url, matched, raised,
                   scanVars, idVars, segmentVars,
                   configFile, settings, config, allFiles, routes,
                   refreshing, loading, watching, owed>>

\* onDidChangeConfiguration with affectsConfiguration('nextjsRadar'): the
\* listener calls loadConfiguration() and nothing else
ConfigurationChange ==
    /\ pc = "provider"
    /\ events < MaxEvents
    /\ watching
    /\ settings' \in Settings \ {settings}
    /\ loading' = loading + 1
    /\ owed' = TRUE
    /\ refreshing' = [i \in 1..Len(refreshing) |->
                         [refreshing[i] EXCEPT !.fresh = FALSE]]
    /\ events' = events + 1
    /\ UNCHANGED <<pc, filename, fileTypeOut, segment, patternOut, segs, pathOut,
                   files, nodes, rootRoutes, url, matched, raised,
                   scanVars, idVars, segmentVars,
                   configFile, config, searchQuery, allFiles, routes,
                   filteredRoutes, watching, fired>>

\* a loadConfiguration call started by the listener returns
LoadConfiguration ==
    /\ pc = "provider"
    /\ loading > 0
    /\ config' = loadConfiguration(config, configFile, settings)
    /\ loading' = loading - 1
    /\ UNCHANGED <<pc, filename, fileTypeOut, segment, patternOut, segs, pathOut,
                   files, nodes, rootRoutes, url, matched, raised,
                   scanVars, idVars, segmentVars,
                   configFile, settings, searchQuery, allFiles, routes,
                   filteredRoutes, refreshing, watching, fired, owed, events>>

\* scanAppRouterFiles of a refresh call reads the app directory
RefreshScan ==
    /\ pc = "provider"
    /\ \E i \in 1..Len(refreshing) :
        /\ ~refreshing[i].scanned
        /\ refreshing' =
               [refreshing EXCEPT ![i] =
                   [@ EXCEPT
                       !.scanned = TRUE,
                       !.scan = scanAppRouterFiles(tree, unreadable, <<>>).files,
                       !.rootFailed = (<<>> \in unreadable),
                       !.fresh = TRUE]]
    /\ UNCHANGED <<pc, filename, fileTypeOut, segment, patternOut, segs, pathOut,
                   files, nodes, rootRoutes, url, matched, raised,
                   scanVars, idVars, segmentVars,
                   configFile, settings, config, searchQuery, allFiles, routes,
                   filteredRoutes, loading, watching, fired, owed, events>>

\* the await of a refresh call returns: the rest of refresh runs without
\* interruption.  The initial refresh is the one initialize awaits before it
\* sets up the watcher and the listener.
RefreshComplete ==
    /\ pc = "provider"
    /\ \E i \in 1..Len(refreshing) :
        /\ refreshing[i].scanned
        /\ LET r == Rebuild(refreshing[i].scan, config, searchQuery)
           IN  /\ allFiles' = r.allFiles
               /\ routes' = r.routes
               /\ filteredRoutes' = r.filteredRoutes
        /\ fired' = fired + 1
        /\ watching' = (watching \/ refreshing[i].initial)
        /\ owed' = (owed /\ ~refreshing[i].fresh)
        /\ refreshing' = RemoveAt(Overtake(refreshing, i), i)
    /\ UNCHANGED <<pc, filename, fileTypeOut, segment, patternOut, segs, pathOut,
                   files, nodes, rootRoutes, url, matched, raised,
                   scanVars, idVars, segmentVars,
                   configFile, settings, config, searchQuery, loading, events>>

\* the provider is constructed and initialize has loaded the configuration,
\* found the app directory and called refresh()
InitProvider ==
    /\ pc = "provider"
    /\ IdleClassify
    /\ IdleEngine
    /\ IdleId
    /\ IdleSegments
    /\ tree \in ProviderTrees
    /\ unreadable = {}
    /\ scanFailed = FALSE /\ runs = 0 /\ prevNodes = <<>> /\ prevRoots = <<>>
    /\ configFile \in ConfigFiles
    /\ settings = [viewType |-> Unset, sortingType |-> Unset]
    /\ config = loadConfiguration(getDefaultConfig, configFile, settings)
    /\ searchQuery = <<>>
    /\ allFiles = <<>> /\ routes = <<>> /\ filteredRoutes = <<>>
    /\ refreshing = <<StartedRefresh(TRUE)>>
    /\ loading = 0
    /\ watching = FALSE
    /\ fired = 0
    /\ owed = FALSE
    /\ events = 0

NextProvider ==
    \/ FileEvent
    \/ PermissionChange
    \/ RefreshCommand
    \/ SetViewType
    \/ SetSortingType
    \/ ApplySearch
    \/ ConfigurationChange
    \/ LoadConfiguration
    \/ RefreshScan
    \/ RefreshComplete

SpecProvider == InitProvider /\ [][NextProvider]_vars

\* RefreshScan is enabled exactly while some refresh call awaits its scan
ScanPending == \E i \in 1..Len(refreshing) : ~refreshing[i].scanned

\* RefreshComplete is enabled exactly while the scan of some refresh call
\* has returned
CompletionPending == \E i \in 1..Len(refreshing) : refreshing[i].scanned

\* the event loop runs every continuation that is ready: a loadConfiguration
\* call returns, a scan that was started returns, and a refresh whose scan
\* has returned runs to its end.  The environment delivers at most MaxEvents
\* events, so RefreshScan and RefreshComplete occur finitely often and their
\* weak fairness is that they are disabled again and again.
SpecProviderFair ==
    /\ SpecProvider
    /\ WF_vars(LoadConfiguration)
    /\ []<>~ScanPending
    /\ []<>~CompletionPending

-----------------------------------------------------------------------------
(* Properties of the URL matcher *)

RECURSIVE PreOrder(_, _)
\* the nodes of the forest in pre-order: a node, then its children, then
\* its later siblings
PreOrder(items, ns) ==
    IF Len(items) = 0 THEN <<>>
    ELSE <<Head(items)>> \o PreOrder(ns[Head(items)].children, ns)
                          \o PreOrder(Tail(items), ns)

Forest == PreOrder(rootRoutes, nodes)

\* node i is the Page whose segments are target
IsPageAt(i, target) ==
    i # 0 /\ nodes[i].fileType = Page /\ nodes[i].segments = target

\* the forest holds a Page at target, and no Page before it in pre-order
\* matches the URL segments wanted
FirstWantedPage(target, wanted) ==
    LET forest == Forest
    IN  \E k \in 1..Len(forest) :
            /\ IsPageAt(forest[k], target)
            /\ \A j \in 1..(k - 1) : ~isRouteMatch(wanted, nodes[forest[j]])

Url_blog_myPost == AbsPath(<<S_blog, S_myPost>>)
Url_blog_x == AbsPath(<<S_blog, S_x>>)
Url_docs_abc == AbsPath(<<S_docs, S_a, S_b, S_c>>)
Url_docs == AbsPath(<<S_docs>>)
Url_root == <<"/">>

\* C1: with a Page at blog/[slug] that no earlier page pre-empts, the input
\* '/blog/my-post' (and any '/blog/<v>') returns that Page node.
C1_BlogSlugFound ==
    \A v \in {S_myPost, S_x} :
        (/\ pc = "matched"
         /\ url = AbsPath(<<S_blog, v>>)
         /\ FirstWantedPage(<<S_blog, S_slug>>, <<S_blog, v>>))
        => (~raised /\ IsPageAt(matched, <<S_blog, S_slug>>))

\* C2: a Page at docs/[...slug] is returned for '/docs/a/b/c' and not for
\* '/docs'; a Page at docs/[[...slug]] is returned for '/docs'.
C2_CatchAllGreedy ==
    pc = "matched" =>
        /\ (url = Url_docs_abc
            /\ FirstWantedPage(<<S_docs, S_catchAll>>, <<S_docs, S_a, S_b, S_c>>))
           => IsPageAt(matched, <<S_docs, S_catchAll>>)
        /\ url = Url_docs => ~IsPageAt(matched, <<S_docs, S_catchAll>>)
        /\ (url = Url_docs /\ FirstWantedPage(<<S_docs, S_optional>>, <<S_docs>>))
           => IsPageAt(matched, <<S_docs, S_optional>>)

HasRootPage ==
    LET forest == Forest IN \E k \in 1..Len(forest) : IsPageAt(forest[k], <<>>)

\* C3 as stated: '/' returns the root Page when the forest has one, and none
\* whenever it has no Page with empty segments.
C3_RootOrNone ==
    (pc = "matched" /\ url = Url_root) =>
        /\ ~raised
        /\ HasRootPage => IsPageAt(matched, <<>>)
        /\ ~HasRootPage => matched = 0

\* the number of leading segments of m that carry the '@' sigil
RECURSIVE LeadingParallel(_)
LeadingParallel(m) ==
    IF Len(m) > 0 /\ Head(m)[1] = "@" THEN 1 + LeadingParallel(Tail(m)) ELSE 0

\* a Page that answers the empty URL: without its route groups and leading
\* parallel segments its segment list is empty or starts with an optional
\* catch-all
AnswersRoot(i) ==
    LET m == SelectSeq(nodes[i].segments, NotRouteGroup)
        k == LeadingParallel(m)
    IN  /\ nodes[i].fileType = Page
        /\ (k = Len(m) \/ OPTIONAL_CATCH_ALL_SEGMENT(m[k + 1]))

\* C3 amended: '/' returns the root Page when the forest has one; otherwise
\* it returns the first Page in pre-order that answers the empty URL through
\* route groups, parallel segments or an optional catch-all, and none only
\* when there is no such Page.
C3_RootOrFirstEmptyMatch ==
    (pc = "matched" /\ url = Url_root) =>
        /\ ~raised
        /\ HasRootPage => IsPageAt(matched, <<>>)
        /\ ~HasRootPage =>
              LET forest == Forest
              IN  IF \E k \in 1..Len(forest) : AnswersRoot(forest[k])
                  THEN \E k \in 1..Len(forest) :
                          /\ matched = forest[k]
                          /\ AnswersRoot(forest[k])
                          /\ \A j \in 1..(k - 1) : ~AnswersRoot(forest[j])
                  ELSE matched = 0

\* a forest with a root Page and another Page that also answers '/', and a
\* forest without root Page where '/' still finds a Page
C3_Witness ==
    /\ pc = "matched" /\ url = Url_root
    /\ ~HasRootPage
    /\ matched # 0
    /\ nodes[matched].segments = <<S_optional>>

\* C4: matchUrlToRoute never raises, whatever the input string.
C4_NeverRaises == pc = "matched" => ~raised

\* C5: the result is none or a node whose role is Page.
C5_OnlyPages ==
    pc = "matched" => (matched = 0 \/ nodes[matched].fileType = Page)

\* the segments the matcher compared for the current url
ComparedSegments == UrlSegments(cleanUrl(url).path)

\* a Layout or ApiRoute node whose segments fit the input was passed over
C5_Witness ==
    /\ pc = "matched" /\ ~raised
    /\ LET forest == Forest
           compared == ComparedSegments
       IN  \E k \in 1..Len(forest) :
              /\ nodes[forest[k]].fileType # Page
              /\ Len(nodes[forest[k]].segments) > 0
              /\ IsRouteMatchAnyRole(compared, nodes[forest[k]])
    /\ matched # 0

\* the positions in pre-order of the nodes that match the current url
MatchingPositions ==
    LET forest == Forest
        compared == ComparedSegments
    IN  {k \in 1..Len(forest) : isRouteMatch(compared, nodes[forest[k]])}

\* C6: among several matching Pages the first in pre-order is returned,
\* static or not.
C6_FirstInPreOrder ==
    (pc = "matched" /\ ~raised) =>
        LET forest == Forest
            positions == MatchingPositions
        IN  IF positions = {} THEN matched = 0
            ELSE \E k \in positions :
                    /\ matched = forest[k]
                    /\ \A j \in positions : k <= j

\* blog/[slug] comes before blog/my-post, both match, the dynamic one wins
C6_Witness ==
    /\ pc = "matched" /\ ~raised
    /\ IsPageAt(matched, <<S_blog, S_slug>>)
    /\ LET forest == Forest
           positions == MatchingPositions
       IN  /\ Cardinality(positions) >= 2
           /\ \E k \in positions : IsPageAt(forest[k], <<S_blog, S_myPost>>)

-----------------------------------------------------------------------------
(* Properties of the classifiers and of the path builder *)

\* the roles whose pattern the file name matches
MatchingRoles(name) ==
    {i \in 1..Len(RouteFileType) : FILE_PATTERNS(RouteFileType[i], name)}

\* C7: getFileType returns role R exactly when the name matches R's pattern,
\* none when it matches no pattern, and no name matches two patterns.
C7_ExactRole ==
    pc = "fileDone" =>
        /\ \A i \in 1..Len(RouteFileType) :
              (fileTypeOut = RouteFileType[i]) <=> (i \in MatchingRoles(filename))
        /\ (fileTypeOut = Null) <=> (MatchingRoles(filename) = {})
        /\ Cardinality(MatchingRoles(filename)) <= 1
        /\ filename = PageTsx => fileTypeOut = Page
        /\ filename = Route \o <<".">> \o Js => fileTypeOut = Route
        /\ filename = Random \o <<".">> \o Tsx => fileTypeOut = Null

\* global-error.tsx ends like error.tsx and is still GlobalError
C7_Witness ==
    /\ pc = "fileDone"
    /\ filename = GlobalError \o <<".">> \o Tsx
    /\ fileTypeOut = GlobalError

\* C8: every segment [...name] is CatchAll and every segment [[...name]] is
\* OptionalCatchAll, for every name without dot and closing bracket; and
\* whatever stands between the brackets, [...x] is never Dynamic and
\* [[...x]] is never CatchAll or Dynamic.
C8_CatchAllKinds ==
    pc = "segmentDone" =>
        /\ \A n \in PlainNames :
            /\ segment = <<"[", ".", ".", ".">> \o n \o <<"]">>
               => patternOut = CatchAll
            /\ segment = <<"[", "[", ".", ".", ".">> \o n \o <<"]", "]">>
               => patternOut = OptionalCatchAll
        /\ \A n \in Names :
            /\ segment = <<"[", ".", ".", ".">> \o n \o <<"]">>
               => patternOut # Dynamic
            /\ segment = <<"[", "[", ".", ".", ".">> \o n \o <<"]", "]">>
               => patternOut \notin {CatchAll, Dynamic}

C8_Witness ==
    /\ pc = "segmentDone"
    /\ segment = <<"[", ".", ".", ".", "a", "]">>
    /\ patternOut = CatchAll

\* the kinds of segment the path rule names: static, dynamic, catch-all,
\* route group and parallel
NamedKind(s) ==
    \/ STATIC_SEGMENT(s)
    \/ getRoutingPattern(s) \in {Dynamic, CatchAll, RouteGroup, Parallel}

\* the display form the rule gives a segment, by its kind
DisplayByKind(s) ==
    LET kind == getRoutingPattern(s)
    IN  IF kind = OptionalCatchAll THEN <<"*">> \o SubSeq(s, 6, Len(s) - 2)
        ELSE IF kind = CatchAll THEN <<"*">> \o SubSeq(s, 5, Len(s) - 1)
        ELSE IF kind = Dynamic THEN <<":">> \o SubSeq(s, 2, Len(s) - 1)
        ELSE IF kind = Parallel THEN Tail(s)
        ELSE s

IsNotGroupKind(s) == getRoutingPattern(s) # RouteGroup

RECURSIVE DisplayAllByKind(_)
DisplayAllByKind(segments) ==
    IF Len(segments) = 0 THEN <<>>
    ELSE <<DisplayByKind(Head(segments))>> \o DisplayAllByKind(Tail(segments))

PathByKind(segments) ==
    IF Len(segments) = 0 THEN <<"/">>
    ELSE <<"/">> \o Join(DisplayAllByKind(SelectSeq(segments, IsNotGroupKind)),
                         <<"/">>)

\* C9: buildRoutePath is '/' for the empty list, otherwise '/' and the
\* '/'-join of the segments with route groups removed, [name] as :name,
\* [...name] as *name, @name as name and static segments unchanged.
C9_RoutePath ==
    pc = "pathDone" =>
        /\ (\A i \in 1..Len(segs) : NamedKind(segs[i])) => pathOut = PathByKind(segs)
        /\ segs = <<>> => pathOut = <<"/">>
        /\ segs = <<S_blog, S_slug>>
           => pathOut = <<"/","b","l","o","g","/",":","s","l","u","g">>
        /\ segs = <<S_docs, S_catchAll>>
           => pathOut = <<"/","d","o","c","s","/","*","s","l","u","g">>
        /\ segs = <<S_marketing, <<"p","r","o","d","u","c","t","s">> >>
           => pathOut = <<"/","p","r","o","d","u","c","t","s">>

C9_Witness ==
    /\ pc = "pathDone"
    /\ segs = <<S_marketing, S_team>>
    /\ pathOut = <<"/","t","e","a","m">>

\* C10: an optional catch-all [[...name]] is rendered '*name', as the
\* catch-all [...name] is.
C10_OptionalAsCatchAll ==
    (/\ pc = "pathDone"
     /\ \A i \in 1..Len(segs) :
           NamedKind(segs[i]) \/ OPTIONAL_CATCH_ALL_SEGMENT(segs[i]))
    => pathOut = PathByKind(segs)

-----------------------------------------------------------------------------
(* Properties of the hierarchy *)

\* the Layout nodes whose segments are p
LayoutsAt(p) ==
    {j \in 1..Len(nodes) : nodes[j].fileType = Layout /\ nodes[j].segments = p}

\* the lengths of the proper prefixes of the segments of node i that hold a
\* Layout
LayoutPrefixes(i) ==
    {k \in 0..(Len(nodes[i].segments) - 1) :
        LayoutsAt(Prefix(nodes[i].segments, k)) # {}}

\* node i hangs below node j: it names j as its parent and is one of the
\* children of j
IsChildOf(i, j) ==
    /\ nodes[i].parentId = nodes[j].id
    /\ \E c \in 1..Len(nodes[j].children) : nodes[j].children[c] = i

\* node i is one of the roots and names no parent
IsRoot(i) ==
    /\ nodes[i].parentId = Null
    /\ \E r \in 1..Len(rootRoutes) : rootRoutes[r] = i

\* C11: a file without a Layout at its own segments has as parent the Layout
\* at the longest proper prefix of its segments that holds one, however many
\* levels up, and is a root only when no prefix holds a Layout
C11_NearestLayoutParent ==
    pc = "built" =>
        \A i \in 1..Len(nodes) :
            LayoutsAt(nodes[i].segments) = {} =>
                LET ks == LayoutPrefixes(i)
                IN  IF ks = {} THEN IsRoot(i)
                    ELSE LET k == CHOOSE m \in ks : \A o \in ks : o <= m
                         IN  \E j \in LayoutsAt(Prefix(nodes[i].segments, k)) :
                                 IsChildOf(i, j)

\* C12: in a directory that holds a page and a layout, whatever the order of
\* the two in the scan, the two nodes have distinct ids and the page is a
\* child of the layout of that directory
C12_PageUnderOwnLayout ==
    pc = "built" =>
        \A i \in 1..Len(nodes) :
            (nodes[i].fileType = Page /\ LayoutsAt(nodes[i].segments) # {}) =>
                /\ \A j \in LayoutsAt(nodes[i].segments) : nodes[j].id # nodes[i].id
                /\ \E j \in LayoutsAt(nodes[i].segments) : IsChildOf(i, j)

\* C13: every file of the list is represented by exactly one node reachable
\* from the roots, as a root or through children links, also when two files
\* share directory and role
C13_EveryFileReachable ==
    pc = "built" =>
        LET forest == Forest
        IN  /\ Len(nodes) = Len(files)
            /\ \A k \in 1..Len(files) :
                /\ nodes[k].segments = files[k].segments
                /\ nodes[k].fileType = files[k].fileType
                /\ Cardinality({p \in 1..Len(forest) : forest[p] = k}) = 1

\* C14: two files that differ in their segments or in their role get
\* different ids
C14_IdInjective ==
    pc = "idDone" => (idArgs[1] # idArgs[2] => idOut[1] # idOut[2])

-----------------------------------------------------------------------------
(* Properties of the scanner *)

\* ids, route paths and parent/child links of a forest
Shape(ns, roots) ==
    [roots |-> roots,
     nodes |-> [i \in 1..Len(ns) |->
                   [id |-> ns[i].id, path |-> ns[i].path,
                    parentId |-> ns[i].parentId, children |-> ns[i].children]]]

\* C15: a second scan and build over the unchanged tree gives a forest with
\* the same ids, the same route path per node and the same parent/child
\* shape as the first
C15_RebuildSameForest ==
    (pc = "built" /\ runs >= 2) =>
        Shape(nodes, rootRoutes) = Shape(prevNodes, prevRoots)

C15_Witness ==
    /\ pc = "built" /\ runs >= 2
    /\ Len(nodes) >= 2
    /\ \E i \in 1..Len(nodes) : Len(nodes[i].children) > 0
    /\ Shape(nodes, rootRoutes) = Shape(prevNodes, prevRoots)

\* the directory names the scan leaves out by name
SkipSet ==
    {S_nodeModules, S_dotNext, S_dotGit, S_dist, S_build, S_tests, S_test}

\* entry e of the tree lies below a directory called name
LiesBelow(e, name) == \E n \in 1..Len(e[1]) : e[1][n] = name

\* C16: no file returned by scanAppRouterFiles has a segment that is in the
\* skip set or begins with a dot; every returned file has a role and no
\* empty segment
C16_NoSkippedDirectory ==
    runs >= 1 =>
        \A i \in 1..Len(files) :
            /\ files[i].fileType # Null
            /\ \A n \in 1..Len(files[i].segments) :
                LET seg == files[i].segments[n]
                IN  /\ seg # <<>>
                    /\ seg \notin SkipSet
                    /\ seg[1] # "."

C16_Witness ==
    /\ runs >= 1
    /\ Len(files) >= 1
    /\ \E i \in 1..Len(tree) : LiesBelow(tree[i], S_dist)
    /\ \E i \in 1..Len(tree) : LiesBelow(tree[i], S_dotX)
    /\ \A i \in 1..Len(files) :
        \A n \in 1..Len(files[i].segments) :
            files[i].segments[n] \notin {S_dist, S_dotX}

\* entry e of the tree is a classifiable file that lies below no skipped
\* directory and in or below no directory whose readdir fails
Kept(e) ==
    /\ getFileType(e[2]) # Null
    /\ \A n \in 1..Len(e[1]) : e[1][n] \notin SkipSet /\ e[1][n][1] # "."
    /\ \A k \in 0..Len(e[1]) : Prefix(e[1], k) \notin unreadable

\* entry e of the tree is one of the files the scan returned
Returned(e) ==
    \E i \in 1..Len(files) :
        files[i].segments = e[1] /\ files[i].fileName = e[2]

\* C17: when the readdir of a directory fails, scanAppRouterFiles returns
\* without raising and its result holds every classifiable file of the
\* readable directories outside the failing subtree
C17_ScanSurvivesFailure ==
    runs >= 1 =>
        /\ ~scanFailed
        /\ \A i \in 1..Len(tree) : Kept(tree[i]) => Returned(tree[i])

C17_Witness ==
    /\ runs >= 1
    /\ ~scanFailed
    /\ \E d \in unreadable :
        /\ d # <<>>
        /\ \E i, j, k \in 1..Len(tree) :
            /\ i < j /\ j < k
            /\ Kept(tree[i]) /\ Returned(tree[i])
            /\ Len(tree[j][1]) >= Len(d) /\ Prefix(tree[j][1], Len(d)) = d
            /\ ~Returned(tree[j])
            /\ Kept(tree[k]) /\ Returned(tree[k])

-----------------------------------------------------------------------------
(* Properties of the provider *)

\* refresh call i ends in this step
Completes(i) ==
    /\ refreshing[i].scanned
    /\ refreshing' = RemoveAt(Overtake(refreshing, i), i)
    /\ fired' = fired + 1

\* C18: a refresh whose scan of the app directory failed leaves the routes,
\* the filtered routes and the file list of a non-empty forest as they were
C18_FailedRebuildKeepsForest ==
    [][\A i \in 1..Len(refreshing) :
          (Completes(i) /\ refreshing[i].rootFailed /\ routes # <<>>) =>
              /\ routes' = routes
              /\ filteredRoutes' = filteredRoutes
              /\ allFiles' = allFiles]_vars

\* C19: rebuilds are serialized: at most one refresh call is between its
\* start and its end
C19_OneRefreshAtATime == Len(refreshing) <= 1

\* C20: every configuration change that affects the nextjsRadar settings is
\* followed by a rebuild: a scan made after the change, the hierarchy built
\* from it and the tree-changed notification
C20_ConfigChangeRebuilds == owed ~> ~owed

-----------------------------------------------------------------------------
(* Runs of the provider over deeper trees, without the watcher's events *)

\* the files the app directory of these runs can hold
ViewEntries ==
    {<< <<>>, PageTsx >>,
     << <<S_b>>, LayoutTsx >>,
     << <<S_b>>, PageTsx >>,
     << <<S_b, S_a>>, PageTsx >>,
     << <<S_b, S_c>>, PageTsx >>}

ViewTrees ==
    {t \in SeqsUpTo(ViewEntries, MaxTreeFiles) :
        /\ \A i, j \in 1..Len(t) : i # j => t[i] # t[j]
        /\ TreeOrder(t)}

\* the provider is constructed over a project whose settings the user has
\* chosen, and initialize has loaded the configuration, found the app
\* directory and called refresh()
InitView ==
    /\ pc = "provider"
    /\ IdleClassify
    /\ IdleEngine
    /\ IdleId
    /\ IdleSegments
    /\ tree \in ViewTrees
    /\ unreadable = {}
    /\ scanFailed = FALSE /\ runs = 0 /\ prevNodes = <<>> /\ prevRoots = <<>>
    /\ configFile \in ConfigFiles
    /\ settings \in Settings
    /\ config = loadConfiguration(getDefaultConfig, configFile, settings)
    /\ searchQuery = <<>>
    /\ allFiles = <<>> /\ routes = <<>> /\ filteredRoutes = <<>>
    /\ refreshing = <<StartedRefresh(TRUE)>>
    /\ loading = 0
    /\ watching = FALSE
    /\ fired = 0
    /\ owed = FALSE
    /\ events = 0

NextView ==
    \/ RefreshCommand
    \/ RefreshScan
    \/ RefreshComplete

SpecView == InitView /\ [][NextView]_vars

-----------------------------------------------------------------------------
(* Properties of the view *)

\* the list is in the order of the comparison of sortingType
IsSorted(items, sortingType) ==
    \A i, j \in 1..Len(items) :
        i < j => CompareRoutes(sortingType, items[i], items[j]) <= 0

RECURSIVE SiblingsSorted(_, _)
\* the list and the children list of every node below it
SiblingsSorted(items, sortingType) ==
    /\ IsSorted(items, sortingType)
    /\ \A k \in 1..Len(items) :
        SiblingsSorted(items[k].children, sortingType)

\* C21: a refresh that ends in hierarchical view leaves the roots and the
\* children list of every node in the configured order
C21_SiblingListsSorted ==
    [][\A i \in 1..Len(refreshing) :
          (Completes(i) /\ config.viewType = "hierarchical") =>
              SiblingsSorted(routes', config.sortingType)]_vars

\* no node of the list stands behind a node with more segments
ShallowerFirst(items) ==
    \A i, j \in 1..Len(items) :
        i < j => getRouteDepth(items[i]) <= getRouteDepth(items[j])

\* C22: a refresh that ends in flat view leaves the list ordered by depth
\* first, under the natural and under the basic sorting
C22_FlatDepthFirst ==
    [][\A i \in 1..Len(refreshing) :
          (Completes(i) /\ config.viewType = "flat") =>
              ShallowerFirst(routes')]_vars

-----------------------------------------------------------------------------
(* Runs of the configuration *)

\* .vscode/nextjs-radar.json is written or removed; nothing watches it
ConfigFileChange ==
    /\ pc = "provider"
    /\ events < MaxEvents
    /\ configFile' \in ConfigFiles \ {configFile}
    /\ events' = events + 1
    /\ UNCHANGED <<pc, filename, fileTypeOut, segment, patternOut, segs, pathOut,
                   files, nodes, rootRoutes, url, matched, raised,
                   scanVars, idVars, segmentVars,
                   settings, config, searchQuery, allFiles, routes,
                   filteredRoutes, refreshing, loading, watching, fired, owed>>

\* the provider is constructed over an app directory without route files,
\* and initialize has loaded the configuration and called refresh()
InitConfig ==
    /\ pc = "provider"
    /\ IdleClassify
    /\ IdleEngine
    /\ IdleId
    /\ IdleSegments
    /\ IdleScan
    /\ configFile \in ConfigFiles
    /\ settings \in Settings
    /\ config = loadConfiguration(getDefaultConfig, configFile, settings)
    /\ searchQuery = <<>>
    /\ allFiles = <<>> /\ routes = <<>> /\ filteredRoutes = <<>>
    /\ refreshing = <<StartedRefresh(TRUE)>>
    /\ loading = 0
    /\ watching = FALSE
    /\ fired = 0
    /\ owed = FALSE
    /\ events = 0

NextConfig ==
    \/ ConfigFileChange
    \/ ConfigurationChange
    \/ LoadConfiguration
    \/ RefreshScan
    \/ RefreshComplete

SpecConfig == InitConfig /\ [][NextConfig]_vars

\* a loadConfiguration call returns in this step
LoadReturns == loading' = loading - 1

\* C23: a loadConfiguration call that finds invalid JSON in the override
\* file leaves every option at its documented default, on a first load and
\* on a later one
C23_InvalidFileGivesDefaults ==
    [][(LoadReturns /\ configFile.exists /\ ~configFile.valid) =>
          config' = getDefaultConfig]_vars

-----------------------------------------------------------------------------
(* Further properties of the URL matcher *)

\* the list matchUrlToRoute handed to findMatchingRoute for the URL of the
\* run
HandedSegments == UrlSegments(cleanUrl(url).path)

\* C24: the URL segments handed to the matcher hold no empty string, and
\* they are the empty list exactly when the normalized path is the root
C24_NoEmptyUrlSegment ==
    (pc = "matched" /\ ~raised) =>
        /\ \A k \in 1..Len(HandedSegments) : HandedSegments[k] # <<>>
        /\ (HandedSegments = <<>>) <=> (cleanUrl(url).path = <<"/">>)

-----------------------------------------------------------------------------
(* Runs of matchSegments and isRouteMatch *)

S_slot == <<"@","a">>
S_at == <<"@">>
S_group == <<"(","a",")">>
S_dyn == <<"[","a","]">>
S_all == <<"[",".",".",".","a","]">>
S_opt == <<"[","[",".",".",".","a","]","]">>

\* the segments of a URL: names, and a name that looks like a slot
UrlSegmentNames == {S_a, S_b, S_slot}

\* the directory names of a route: static, dynamic, catch-all, optional
\* catch-all, parallel, the bare sigil and a route group
RouteSegmentNames == {S_a, S_b, S_dyn, S_all, S_opt, S_slot, S_at, S_group}

\* matchSegments(urlSegments, routeSegments)
MatchSegments ==
    /\ pc = "segments"
    /\ segmentsMatch' = matchSegments(urlSegs, routeSegs)
    /\ pc' = "segmentsDone"
    /\ UNCHANGED <<filename, fileTypeOut, segment, patternOut, segs, pathOut,
                   files, nodes, rootRoutes, url, matched, raised,
                   scanVars, idVars, urlSegs, routeSegs, routeMatch,
                   providerVars>>

\* isRouteMatch(urlSegments, route) for a page whose segments are routeSegs
IsRouteMatch ==
    /\ pc = "segments"
    /\ routeMatch' = isRouteMatch(urlSegs, [isPage |-> TRUE, segments |-> routeSegs])
    /\ pc' = "routeDone"
    /\ UNCHANGED <<filename, fileTypeOut, segment, patternOut, segs, pathOut,
                   files, nodes, rootRoutes, url, matched, raised,
                   scanVars, idVars, urlSegs, routeSegs, segmentsMatch,
                   providerVars>>

InitSegments ==
    /\ pc = "segments"
    /\ IdleClassify
    /\ IdleEngine
    /\ IdleScan
    /\ IdleId
    /\ IdleProvider
    /\ urlSegs \in SeqsUpTo(UrlSegmentNames, MaxSegs + 1)
    /\ routeSegs \in SeqsUpTo(RouteSegmentNames, MaxSegs)
    /\ segmentsMatch = FALSE
    /\ routeMatch = FALSE

NextSegments == MatchSegments \/ IsRouteMatch

SpecSegments == InitSegments /\ [][NextSegments]_vars

-----------------------------------------------------------------------------
(* Properties of matchSegments *)

\* the route segments are static (no special character) or dynamic
StaticOrDynamic(list) ==
    \A k \in 1..Len(list) :
        STATIC_SEGMENT(list[k]) \/ getRoutingPattern(list[k]) = Dynamic

\* the lists have one length and agree at every static position
AgreeAtStatic(u, r) ==
    /\ Len(u) = Len(r)
    /\ \A k \in 1..Len(r) : STATIC_SEGMENT(r[k]) => u[k] = r[k]

\* C25: for route segments that are static or dynamic, matchSegments is true
\* exactly when both lists have the same length and the URL segment equals
\* the route segment at every static position
C25_StaticDynamicMatch ==
    (pc = "segmentsDone" /\ StaticOrDynamic(routeSegs)) =>
        (segmentsMatch <=> AgreeAtStatic(urlSegs, routeSegs))

C25_Witness ==
    /\ pc = "segmentsDone"
    /\ routeSegs = <<S_a, S_dyn>>
    /\ urlSegs = <<S_a, S_b>>
    /\ segmentsMatch

\* the segment is a parallel route '@name'
IsParallel(s) == getRoutingPattern(s) = Parallel

IsNotParallel(s) == ~IsParallel(s)

\* the segment is neither a parallel route nor a route group
IsUrlSegment(s) == ~IsParallel(s) /\ ~isRouteGroup(s)

\* C26: matchSegments gives the result it gives for the route list without
\* its parallel routes, and a page matches the URL lists that the page at
\* its segments without route groups and parallel routes matches
C26_ParallelNoPosition ==
    /\ pc = "segmentsDone" =>
           segmentsMatch =
               matchSegments(urlSegs, SelectSeq(routeSegs, IsNotParallel))
    /\ pc = "routeDone" =>
           routeMatch =
               isRouteMatch(urlSegs,
                            [isPage |-> TRUE,
                             segments |-> SelectSeq(routeSegs, IsUrlSegment)])

C26_Witness ==
    /\ pc = "routeDone"
    /\ routeSegs = <<S_a, S_slot>>
    /\ urlSegs = <<S_a>>
    /\ routeMatch

-----------------------------------------------------------------------------
(* Further properties of the provider *)

\* C27: of the refresh calls that overlap, one that started earlier never
\* replaces the file list that a call started after it has installed, the
\* directory tree being as it was when the later call was made
C27_LatestRefreshWins ==
    [][\A i \in 1..Len(refreshing) :
          (Completes(i) /\ refreshing[i].overtaken) =>
              allFiles' = allFiles]_vars

-----------------------------------------------------------------------------
(* Further properties of the hierarchy *)

\* the nodes in the children list of node j
ChildrenOf(j) == {nodes[j].children[c] : c \in 1..Len(nodes[j].children)}

RECURSIVE Below(_, _)
\* the nodes reached from node j by one to n children links
Below(j, n) ==
    IF n = 0 THEN {}
    ELSE ChildrenOf(j) \cup UNION {Below(c, n - 1) : c \in ChildrenOf(j)}

\* the places node i is held at: positions of the roots and of the children
\* lists
Holders(i) ==
    {<<0, r>> : r \in {q \in 1..Len(rootRoutes) : rootRoutes[q] = i}}
    \cup UNION {{<<j, c>> : c \in {q \in 1..Len(nodes[j].children) :
                                       nodes[j].children[q] = i}} :
                  j \in 1..Len(nodes)}

\* C28: the structure buildRouteHierarchy builds is acyclic: no node is its
\* own child or descendant, and no node is held twice, by two parents or as
\* a root and as a child
C28_Acyclic ==
    pc = "built" =>
        \A i \in 1..Len(nodes) :
            /\ i \notin Below(i, Len(nodes))
            /\ Cardinality(Holders(i)) <= 1

\* C29: only Layout nodes have children; a child names its holder as
\* parent, the holder's segments are the child's or the child's without
\* the last one, and a node that names a parent is held by it and is no
\* root
C29_ParentChildShape ==
    pc = "built" =>
        \A j \in 1..Len(nodes) :
            /\ nodes[j].children # <<>> => nodes[j].fileType = Layout
            /\ \A i \in ChildrenOf(j) :
                /\ nodes[i].parentId = nodes[j].id
                /\ \/ nodes[j].segments = nodes[i].segments
                   \/ nodes[j].segments =
                          Prefix(nodes[i].segments, Len(nodes[i].segments) - 1)
            /\ nodes[j].parentId # Null =>
                /\ \E p \in 1..Len(nodes) :
                       nodes[p].id = nodes[j].parentId /\ j \in ChildrenOf(p)
                /\ \A r \in 1..Len(rootRoutes) : rootRoutes[r] # j

\* the runs of the provider in which the user searches, refreshes and
\* changes view and sorting while the directory tree stays as it is
NextSearch ==
    \/ RefreshCommand
    \/ SetViewType
    \/ SetSortingType
    \/ ApplySearch
    \/ RefreshScan
    \/ RefreshComplete

SpecSearch == InitProvider /\ [][NextSearch]_vars

\* C30: whenever no refresh call is in progress, the filtered routes are the
\* routes when the stored query is empty, and filterRoutes of the routes and
\* the stored query otherwise
C30_FilterFollowsQuery ==
    (pc = "provider" /\ refreshing = <<>>) =>
        filteredRoutes = IF searchQuery = <<>> THEN routes
                         ELSE filterRoutes(routes, searchQuery)

C30_Witness ==
    /\ pc = "provider"
    /\ refreshing = <<>>
    /\ searchQuery = <<"p", "a", "g", "e">>
    /\ config.viewType = "flat"
    /\ Len(routes) = 2
    /\ Len(filteredRoutes) = 1

=============================================================================
